---- MODULE Spec2Model ----
(***************************************************************************)
(* PandasSchema: Schema (pandas_schema/schema.py) and ValidationWarning    *)
(* (pandas_schema/validation_warning.py).                                  *)
(*                                                                         *)
(* Python values are modelled as follows.                                  *)
(*   - An optional attribute (value, row, column of a ValidationWarning)   *)
(*     is a boxed value: PyNone for None, <<v>> for the object v.          *)
(*   - A string built by an f-string is the sequence of its pieces, so a   *)
(*     message and a rendering are sequences of strings.                   *)
(*   - A DataFrame is the sequence of its columns in iteration order, each *)
(*     a record [name, series]; a series is the sequence of its cells and  *)
(*     the row label of the i-th cell is i-1.                              *)
(*   - The subset argument of validate is [given, names]: given = FALSE is *)
(*     the default None, otherwise names is the set of the list's items    *)
(*     (the code only uses the list through set() and "in").               *)
(***************************************************************************)
EXTENDS Integers, Sequences, FiniteSets

VARIABLES
    pc,       \* "new": no Schema yet; "failed": __init__ raised; "ready": the
              \* Schema exists; "returned": a validate call has just ended
    args,     \* the arguments __init__ was called with
    self,     \* the Schema object: [columns, ordered]
    df,       \* the table of the last validate call
    subset,   \* the subset argument of the last validate call
    ret,      \* what the last validate call did, see Outcome
    prev,     \* the exit of the call before it
    w,        \* a ValidationWarning under construction / constructed
    text      \* the rendering str(w), <<>> before __str__ ran

vars == <<pc, args, self, df, subset, ret, prev, w, text>>

-----------------------------------------------------------------------------
(* Bounds and input sets *)

MaxCols == 2        \* longest columns list handed to Schema.__init__
MaxDfCols == 2      \* most columns of a table handed to validate

\* Names of schema columns, and the labels and subset names of the calls:
\* "z" is a name no schema declares.
SchemaNames == {"a", "b"}
ColumnNames == SchemaNames \cup {"z"}

\* The series a table column can hold (two rows each).
SeriesSet == {<<0, 0>>, <<1, 2>>, <<2, 1>>}

PyNone == <<>>

RECURSIVE SeqsUpTo(_, _)
SeqsUpTo(S, n) ==
    IF n = 0 THEN {<<>>}
    ELSE LET shorter == SeqsUpTo(S, n - 1)
         IN  shorter \cup {Append(s, x) : s \in {t \in shorter : Len(t) = n - 1}, x \in S}

Range(s) == {s[i] : i \in 1..Len(s)}

Min(a, b) == IF a < b THEN a ELSE b

\* str() of the small integers that occur.
IntStr(n) ==
    IF n = -1 THEN "-1"
    ELSE <<"0", "1", "2", "3", "4", "5", "6", "7", "8", "9">>[n + 1]

-----------------------------------------------------------------------------
(* validation_warning.py *)

\* ValidationWarning.__init__(message, value=None, row=-1, column=None)
ValidationWarning(message, value, row, column) ==
    [message |-> message, value |-> value, row |-> row, column |-> column]

DefaultValue == PyNone
DefaultRow == <<-1>>
DefaultColumn == PyNone

\* The full form of the rendering.
FullForm(e) ==
    <<"{row: ", IntStr(e.row[1]), ", column: \"", e.column[1], "\"}: ",
      "\"", IntStr(e.value[1]), "\" ">> \o e.message

\* ValidationWarning.__str__
WarningStr(e) ==
    IF e.row # PyNone /\ e.column # PyNone /\ e.value # PyNone
    THEN FullForm(e)
    ELSE e.message

-----------------------------------------------------------------------------
(* column.py (not part of the core): the Column capability contract *)

\* A Column object; id is the object's identity (its position in the list
\* handed to Schema.__init__), so two columns of one name stay distinct.
Column(name, id) == [type |-> "Column", name |-> name, id |-> id]

Columns(names) == [i \in 1..Len(names) |-> Column(names[i], i)]

\* The warnings of one check of a column: one per failing cell, in row order.
RECURSIVE CheckCells(_, _, _, _)
CheckCells(column, series, limit, i) ==
    IF i > Len(series) THEN <<>>
    ELSE (IF series[i] >= limit
          THEN <<ValidationWarning(<<"must be below ", IntStr(limit)>>,
                                   <<series[i]>>, <<i - 1>>, <<column.name>>)>>
          ELSE <<>>)
         \o CheckCells(column, series, limit, i + 1)

\* Column.validate(series): the column runs its checks one after the other,
\* so its output is not in row order and may name one row twice.
ColumnValidate(column, series) ==
    CheckCells(column, series, 1, 1) \o CheckCells(column, series, 2, 1)

-----------------------------------------------------------------------------
(* schema.py *)

\* The columns argument of Schema.__init__ is [type, items], the ordered
\* argument [type, val].
Truthy(columns) == columns.type # "NoneType" /\ Len(columns.items) > 0

\* Variant of InitRaises: the type of ordered is not checked.
InitRaisesNoBoolCheck(columns, ordered) ==
    \/ ~Truthy(columns)
    \/ columns.type # "list"

\* Schema.__init__: the three checks that raise PanSchInvalidSchemaError
InitRaises(columns, ordered) ==
    \/ ~Truthy(columns)
    \/ columns.type # "list"
    \/ ordered.type # "bool"

\* Schema.__init__: the object after a successful construction
SchemaInit(columns, ordered) ==
    [columns |-> columns.items, ordered |-> (ordered.val = "True")]

\* Schema.get_column_names
get_column_names(slf) == [i \in 1..Len(slf.columns) |-> slf.columns[i].name]

\* Variant of CountMismatch: only a table with too few columns is caught.
CountMismatchFewer(slf, table) == Len(table) < Len(slf.columns)

\* the condition of line 64, with df_cols = len(df.columns)
CountMismatch(slf, table) == Len(table) # Len(slf.columns)

CountMessage(schema_cols, df_cols) ==
    <<"Invalid number of columns. The schema specifies ", IntStr(schema_cols),
      ", but the data frame has ", IntStr(df_cols)>>

MissingMessage(name) ==
    <<"The column ", name, " exists in the schema but not in the data frame">>

\* set(columns).issubset(self.get_column_names())
IsSubsetOfSchema(slf, names) == names \subseteq Range(get_column_names(slf))

\* [column for column in self.columns if column.name in columns]
columns_to_pair(slf, names) ==
    SelectSeq(slf.columns, LAMBDA column : column.name \in names)

\* A str object, to compare it with a Column object as Python does.
PyStr(s) == [type |-> "str", val |-> s]

\* set(columns).difference(self.columns): the names the error message shows.
\* self.columns holds Column objects, and no str equals a Column.
ReportedColumns(slf, names) ==
    {n \in names : PyStr(n) \notin Range(slf.columns)}

\* name in df
InDf(name, table) == \E i \in 1..Len(table) : table[i].name = name

\* df[name]
DfGet(table, name) ==
    table[CHOOSE i \in 1..Len(table) : table[i].name = name].series

\* Variant of Zip: a column takes the table column of its name when there is
\* one, and the one at its position otherwise.
ZipByName(table, columns) ==
    [i \in 1..Min(Len(table), Len(columns)) |->
        [series |-> IF InDf(columns[i].name, table)
                    THEN DfGet(table, columns[i].name)
                    ELSE table[i].series,
         column |-> columns[i]]]

\* zip([x[1] for x in df.iteritems()], self.columns)
Zip(table, columns) ==
    [i \in 1..Min(Len(table), Len(columns)) |->
        [series |-> table[i].series, column |-> columns[i]]]

\* Variant of PairByName: a column that is not in the table is skipped.
RECURSIVE PairByNameSkip(_, _, _)
PairByNameSkip(table, to_pair, i) ==
    IF i > Len(to_pair) THEN [missing |-> PyNone, pairs |-> <<>>]
    ELSE IF ~InDf(to_pair[i].name, table)
         THEN PairByNameSkip(table, to_pair, i + 1)
         ELSE LET rest == PairByNameSkip(table, to_pair, i + 1)
                  pair == [series |-> DfGet(table, to_pair[i].name),
                           column |-> to_pair[i]]
              IN  [missing |-> rest.missing, pairs |-> <<pair>> \o rest.pairs]

\* The loop of lines 93-104: pairs by name up to the first column that is
\* not in the table.
RECURSIVE PairByName(_, _, _)
PairByName(table, to_pair, i) ==
    IF i > Len(to_pair) THEN [missing |-> PyNone, pairs |-> <<>>]
    ELSE IF ~InDf(to_pair[i].name, table)
         THEN [missing |-> <<to_pair[i].name>>, pairs |-> <<>>]
         ELSE LET rest == PairByName(table, to_pair, i + 1)
                  pair == [series |-> DfGet(table, to_pair[i].name),
                           column |-> to_pair[i]]
              IN  [missing |-> rest.missing, pairs |-> <<pair>> \o rest.pairs]

\* Variant of column_pairs: the working list is stored in self.columns
\* before the pairing.
column_pairsAssign(slf, table, to_pair) ==
    LET narrowed == [slf EXCEPT !.columns = to_pair]
    IN  IF slf.ordered
        THEN [self |-> narrowed, missing |-> PyNone,
              pairs |-> Zip(table, narrowed.columns)]
        ELSE LET byName == PairByName(table, to_pair, 1)
             IN  [self |-> narrowed, missing |-> byName.missing,
                  pairs |-> byName.pairs]

\* Lines 86-104: the pairs, the name of the column that stopped the pairing
\* (or None), and the Schema object, which the pairing leaves alone.
column_pairs(slf, table, to_pair) ==
    IF slf.ordered
    THEN [self |-> slf, missing |-> PyNone, pairs |-> Zip(table, slf.columns)]
    ELSE LET byName == PairByName(table, to_pair, 1)
         IN  [self |-> slf, missing |-> byName.missing, pairs |-> byName.pairs]

\* Variant of RunValidations: errors = column.validate(series), which keeps
\* the output of the last column only.
RECURSIVE RunValidationsAssign(_, _)
RunValidationsAssign(pairs, i) ==
    IF i > Len(pairs) THEN [errors |-> <<>>, calls |-> <<>>]
    ELSE LET out  == ColumnValidate(pairs[i].column, pairs[i].series)
             rest == RunValidationsAssign(pairs, i + 1)
         IN  [errors |-> IF i = Len(pairs) THEN out ELSE rest.errors,
              calls  |-> <<[column |-> pairs[i].column,
                            series |-> pairs[i].series,
                            out    |-> out]>> \o rest.calls]

\* The loop of lines 108-109: errors += column.validate(series), with the
\* log of the invocations made.
RECURSIVE RunValidations(_, _)
RunValidations(pairs, i) ==
    IF i > Len(pairs) THEN [errors |-> <<>>, calls |-> <<>>]
    ELSE LET out  == ColumnValidate(pairs[i].column, pairs[i].series)
             rest == RunValidations(pairs, i + 1)
         IN  [errors |-> out \o rest.errors,
              calls  |-> <<[column |-> pairs[i].column,
                            series |-> pairs[i].series,
                            out    |-> out]>> \o rest.calls]

\* key=lambda e: e.row
RowKey(e) == e.row[1]

\* Variant of InsertSorted: e goes before the entries of its own key.
RECURSIVE InsertSortedUnstable(_, _)
InsertSortedUnstable(s, e) ==
    IF s = <<>> THEN <<e>>
    ELSE IF RowKey(s[Len(s)]) < RowKey(e) THEN Append(s, e)
         ELSE Append(InsertSortedUnstable(SubSeq(s, 1, Len(s) - 1), e), s[Len(s)])

\* Insertion of e into a sorted list, after the entries whose key is not
\* greater (Python's sort is stable).
RECURSIVE InsertSorted(_, _)
InsertSorted(s, e) ==
    IF s = <<>> THEN <<e>>
    ELSE IF RowKey(s[Len(s)]) <= RowKey(e) THEN Append(s, e)
         ELSE Append(InsertSorted(SubSeq(s, 1, Len(s) - 1), e), s[Len(s)])

\* sorted(errors, key=lambda e: e.row)
RECURSIVE Sorted(_)
Sorted(errors) ==
    IF errors = <<>> THEN <<>>
    ELSE InsertSorted(Sorted(SubSeq(errors, 1, Len(errors) - 1)), errors[Len(errors)])

\* What one validate call did: the statement it left by, the list returned
\* (empty when it raised), the validators invoked, the names shown in the
\* argument error, and the Schema object afterwards.
Outcome(slf, exit, errors, calls, reported) ==
    [self |-> slf, exit |-> exit, errors |-> errors, calls |-> calls,
     reported |-> reported]

\* Schema.validate(df, columns)
validate(slf, table, columns) ==
    IF ~columns.given /\ CountMismatch(slf, table)
    THEN Outcome(slf, "return72",
                 <<ValidationWarning(CountMessage(Len(slf.columns), Len(table)),
                                     DefaultValue, DefaultRow, DefaultColumn)>>,
                 <<>>, {})
    ELSE IF columns.given /\ ~IsSubsetOfSchema(slf, columns.names)
    THEN Outcome(slf, "raise81", <<>>, <<>>, ReportedColumns(slf, columns.names))
    ELSE LET to_pair == IF columns.given
                        THEN columns_to_pair(slf, columns.names)
                        ELSE slf.columns
             paired  == column_pairs(slf, table, to_pair)
             run     == RunValidations(paired.pairs, 1)
         IN  IF paired.missing # PyNone
             THEN Outcome(paired.self, "return103",
                          <<ValidationWarning(MissingMessage(paired.missing[1]),
                                              DefaultValue, DefaultRow,
                                              paired.missing)>>,
                          <<>>, {})
             ELSE Outcome(paired.self, "return111", Sorted(run.errors),
                          run.calls, {})

-----------------------------------------------------------------------------
(* Inputs *)

NoneArg == [type |-> "NoneType", items |-> <<>>]

\* The values handed to __init__ as columns: None, lists and tuples of
\* Column objects (the empty ones included).
ColumnsArgs ==
    {NoneArg}
    \cup {[type |-> "list", items |-> Columns(names)] :
              names \in SeqsUpTo(SchemaNames, MaxCols)}
    \cup {[type |-> "tuple", items |-> Columns(names)] :
              names \in SeqsUpTo(SchemaNames, 1)}

\* The values handed to __init__ as ordered.
OrderedArgs ==
    {[type |-> "bool", val |-> "True"], [type |-> "bool", val |-> "False"],
     [type |-> "str", val |-> "true"], [type |-> "int", val |-> "1"],
     [type |-> "NoneType", val |-> "None"]}

\* Tables: column labels are distinct.
Tables ==
    {t \in SeqsUpTo([name : ColumnNames, series : SeriesSet], MaxDfCols) :
        \A i, j \in 1..Len(t) : t[i].name = t[j].name => i = j}

NoSubset == [given |-> FALSE, names |-> {}]

Subsets == {NoSubset} \cup {[given |-> TRUE, names |-> S] : S \in SUBSET ColumnNames}

\* The arguments of ValidationWarning(...)
Messages == {<<"bad value">>, <<"schema mismatch">>}
Values   == {PyNone, <<0>>, <<7>>}
Rows     == {PyNone, <<-1>>, <<0>>, <<2>>}
ColumnOpts == {PyNone, <<"a">>, <<"x">>}

NoArgs == [columns |-> NoneArg, ordered |-> [type |-> "NoneType", val |-> "None"]]
NoSchema == [columns |-> <<>>, ordered |-> FALSE]
NoCall == [self |-> NoSchema, exit |-> "none", errors |-> <<>>, calls |-> <<>>,
           reported |-> {}]
NoWarning == ValidationWarning(<<>>, PyNone, PyNone, PyNone)
NotRendered == <<>>

-----------------------------------------------------------------------------
(* The program as a state machine *)

Init ==
    /\ pc = "new"
    /\ args = NoArgs
    /\ self = NoSchema
    /\ df = <<>>
    /\ subset = NoSubset
    /\ ret = NoCall
    /\ prev = "none"
    /\ w = NoWarning
    /\ text = NotRendered

\* schema = Schema(columns, ordered), for any arguments
Construct ==
    /\ pc = "new"
    /\ \E columns \in ColumnsArgs, ordered \in OrderedArgs :
          /\ args' = [columns |-> columns, ordered |-> ordered]
          /\ IF InitRaises(columns, ordered)
             THEN pc' = "failed" /\ self' = NoSchema
             ELSE pc' = "ready" /\ self' = SchemaInit(columns, ordered)
    /\ UNCHANGED <<df, subset, ret, prev, w, text>>

\* schema.validate(table, columns), for any table and subset
Validate ==
    /\ pc = "ready"
    /\ pc' = "returned"
    /\ \E table \in Tables, columns \in Subsets :
          /\ ret' = validate(self, table, columns)
          /\ self' = ret'.self
          /\ df' = table
          /\ subset' = columns
    /\ UNCHANGED <<args, prev, w, text>>

\* The caller drops what the call returned; the next call starts from
\* errors = [] again.  Only the way the call ended is remembered.
Discard ==
    /\ pc = "returned"
    /\ pc' = "ready"
    /\ df' = <<>>
    /\ subset' = NoSubset
    /\ ret' = NoCall
    /\ prev' = ret.exit
    /\ UNCHANGED <<args, self, w, text>>

Next ==
    \/ Construct
    \/ Validate
    \/ Discard

Spec == Init /\ [][Next]_vars

\* ValidationWarning objects and their rendering, on their own.
InitStr ==
    /\ pc = "new"
    /\ args = NoArgs
    /\ self = NoSchema
    /\ df = <<>>
    /\ subset = NoSubset
    /\ ret = NoCall
    /\ prev = "none"
    /\ w \in {ValidationWarning(m, v, r, c) :
                 m \in Messages, v \in Values, r \in Rows, c \in ColumnOpts}
    /\ text = NotRendered

\* text = str(w)
Render ==
    /\ text = NotRendered
    /\ text' = WarningStr(w)
    /\ UNCHANGED <<pc, args, self, df, subset, ret, prev, w>>

NextStr == Render

SpecStr == InitStr /\ [][NextStr]_vars

-----------------------------------------------------------------------------
(* Vocabulary of the properties *)

Called == pc = "returned"

\* The names the schema declares.
Declared == {self.columns[i].name : i \in 1..Len(self.columns)}

\* The labels of the table of the call.
Labels == {df[i].name : i \in 1..Len(df)}

\* The subset argument names declared columns only.
SubsetDeclared == subset.given /\ subset.names \subseteq Declared

\* The working list of the call: all schema columns, or those named in subset.
Working ==
    IF subset.given
    THEN SelectSeq(self.columns, LAMBDA c : c.name \in subset.names)
    ELSE self.columns

\* The columns the pairing step pairs: the working list by name, or the
\* schema columns that have a table column at their position.
Paired ==
    IF self.ordered
    THEN SubSeq(self.columns, 1, Min(Len(df), Len(self.columns)))
    ELSE Working

\* The table values handed over with the i-th paired column.
PairedSeries(i) ==
    IF self.ordered THEN df[i].series
    ELSE df[CHOOSE k \in 1..Len(df) : df[k].name = Paired[i].name].series

\* The validators' outputs, one after the other, in the order of the calls.
RECURSIVE Concat(_, _)
Concat(calls, i) ==
    IF i > Len(calls) THEN <<>> ELSE calls[i].out \o Concat(calls, i + 1)

Emitted == Concat(ret.calls, 1)

Count(s, e) == Cardinality({i \in 1..Len(s) : s[i] = e})

WithRow(s, r) == SelectSeq(s, LAMBDA e : e.row = r)

\* A warning of the schema itself: no row, no value.
Structural(e) == e.row = <<-1>> /\ e.value = PyNone

-----------------------------------------------------------------------------
(* C1 *)

\* C1: when subset names declared columns only, validate invokes the
\* validator of a schema column only if its name is in subset, and no
\* warning of a column outside subset is in the result (either pairing mode).
C1_OnlySubsetValidated ==
    (Called /\ SubsetDeclared) =>
        /\ \A i \in 1..Len(ret.calls) : ret.calls[i].column.name \in subset.names
        /\ \A i \in 1..Len(ret.errors) :
              ~Structural(ret.errors[i]) => ret.errors[i].column[1] \in subset.names

-----------------------------------------------------------------------------
(* C2 *)

\* C2: a list returned after the validators ran is in ascending row order,
\* and the warnings of one row keep the order in which they were emitted.
C2_SortedStable ==
    (Called /\ ret.exit = "return111") =>
        /\ \A i, j \in 1..Len(ret.errors) :
              i < j => ret.errors[i].row[1] <= ret.errors[j].row[1]
        /\ \A r \in {e.row : e \in Range(Emitted)} \cup {e.row : e \in Range(ret.errors)} :
              WithRow(ret.errors, r) = WithRow(Emitted, r)

\* Two validators ran, their joint output was out of row order, and one row
\* got different warnings both inside one output and across the two.
C2_Witness ==
    /\ Called /\ ret.exit = "return111"
    /\ Len(ret.calls) = 2
    /\ Emitted # ret.errors
    /\ \E i, j \in 1..Len(ret.calls[1].out) :
          /\ i < j
          /\ ret.calls[1].out[i].row = ret.calls[1].out[j].row
          /\ ret.calls[1].out[i] # ret.calls[1].out[j]
    /\ \E e1 \in Range(ret.calls[1].out), e2 \in Range(ret.calls[2].out) :
          e1.row = e2.row /\ e1 # e2

-----------------------------------------------------------------------------
(* C3 *)

\* C3: without a subset, a table whose column count differs from the
\* schema's gets exactly one warning, with row -1 and no column and value,
\* and no validator is invoked, in both pairing modes.
C3_CountMismatch ==
    (Called /\ ~subset.given /\ Len(df) # Len(self.columns)) =>
        /\ ret.exit = "return72"
        /\ Len(ret.errors) = 1
        /\ ret.errors[1].row = <<-1>>
        /\ ret.errors[1].column = PyNone
        /\ ret.errors[1].value = PyNone
        /\ ret.errors[1].message = CountMessage(Len(self.columns), Len(df))
        /\ ret.calls = <<>>

\* Positional pairing, a table with more columns than the schema, whose
\* first columns hold values the validators would reject.
C3_Witness ==
    /\ Called /\ ~subset.given /\ self.ordered
    /\ Len(df) > Len(self.columns)
    /\ df[1].series = <<2, 1>>
    /\ Len(ret.errors) = 1

-----------------------------------------------------------------------------
(* C4 *)

\* The first column of the working list without a table column of its name.
FirstMissing ==
    Working[CHOOSE i \in 1..Len(Working) :
                /\ Working[i].name \notin Labels
                /\ \A k \in 1..(i - 1) : Working[k].name \in Labels]

SomeMissing == \E i \in 1..Len(Working) : Working[i].name \notin Labels

OneMissingWarning ==
    /\ Len(ret.errors) = 1
    /\ ret.errors[1].column = <<FirstMissing.name>>
    /\ ret.errors[1].row = <<-1>>
    /\ ret.calls = <<>>

\* C4 as stated: with ordered = false, when a column of the working list has
\* no table column of its name, the result is one warning that names the
\* first such column, and no validator is invoked.
C4_Original ==
    (Called /\ ~self.ordered /\ (subset.given => SubsetDeclared) /\ SomeMissing)
        => OneMissingWarning

\* C4, amended: the same, provided that the call names a subset or the
\* table has as many columns as the schema (otherwise the count warning of
\* C3 is returned instead).
C4_MissingColumn ==
    (/\ Called /\ ~self.ordered /\ (subset.given => SubsetDeclared) /\ SomeMissing
     /\ (subset.given \/ Len(df) = Len(self.columns)))
        => (ret.exit = "return103" /\ OneMissingWarning)

\* The missing column is the second of the working list, and the first one
\* is in the table with values its validator would reject.
C4_Witness ==
    /\ Called /\ ~self.ordered /\ ret.exit = "return103"
    /\ Len(Working) = 2
    /\ Working[1].name \in Labels
    /\ \E k \in 1..Len(df) : df[k].name = Working[1].name /\ df[k].series = <<2, 1>>
    /\ ret.errors[1].column = <<Working[2].name>>

-----------------------------------------------------------------------------
(* C5 *)

\* C5: a subset with a name the schema does not declare makes validate raise
\* the argument error, with no validator invoked and nothing returned, and
\* the error reports exactly the undeclared names.
C5_Original ==
    (Called /\ subset.given /\ ~(subset.names \subseteq Declared)) =>
        /\ ret.exit = "raise81"
        /\ ret.calls = <<>>
        /\ ret.errors = <<>>
        /\ ret.reported = subset.names \ Declared

-----------------------------------------------------------------------------
(* C6 *)

AllSet(e) == e.row \notin {PyNone, <<-1>>} /\ e.column # PyNone /\ e.value # PyNone

\* C6: the rendering is the full form exactly when row, column and value are
\* all set (row not -1), and the bare message in every other case.
C6_Original ==
    (text # NotRendered) =>
        /\ AllSet(w) => text = FullForm(w)
        /\ ~AllSet(w) => text = w.message

-----------------------------------------------------------------------------
(* C7 *)

\* The arguments the specification rejects: columns empty or absent or not a
\* list, ordered not a boolean.
Malformed ==
    \/ args.columns.type = "NoneType"
    \/ Len(args.columns.items) = 0
    \/ args.columns.type # "list"
    \/ args.ordered.type # "bool"

JustConstructed == pc \in {"ready", "failed"} /\ prev = "none"

\* C7: construction fails exactly for malformed arguments; otherwise the
\* schema holds the columns in the given order and the given flag, and
\* get_column_names returns the names in that order.
C7_Construction ==
    JustConstructed =>
        /\ (pc = "failed") <=> Malformed
        /\ ~Malformed =>
              /\ self.columns = args.columns.items
              /\ self.ordered = (args.ordered.val = "True")
              /\ get_column_names(self) =
                    [i \in 1..Len(args.columns.items) |-> args.columns.items[i].name]

\* A schema of two columns, b before a, with ordered = True.
C7_Witness ==
    /\ JustConstructed /\ pc = "ready"
    /\ get_column_names(self) = <<"b", "a">>
    /\ self.ordered

-----------------------------------------------------------------------------
(* C8 *)

\* C8: with ordered = true, the validator of the i-th schema column gets the
\* values of the i-th table column, whatever the labels, for every position
\* both have, and no missing-column warning is returned.
C8_PairsByPosition ==
    (Called /\ self.ordered) =>
        /\ ret.exit # "return103"
        /\ \A i \in 1..Len(ret.errors) :
              ret.errors[i].message[1] # MissingMessage("a")[1]
        /\ ret.exit = "return111" =>
              /\ Len(ret.calls) = Min(Len(df), Len(self.columns))
              /\ \A i \in 1..Len(ret.calls) :
                    /\ ret.calls[i].column = self.columns[i]
                    /\ ret.calls[i].series = df[i].series

\* The table holds the schema's two names in the other order, with
\* different values, and one more table has a label the schema lacks.
C8_Witness ==
    /\ Called /\ self.ordered /\ ret.exit = "return111"
    /\ Len(self.columns) = 2 /\ Len(df) = 2
    /\ df[1].name = self.columns[2].name
    /\ df[2].name = self.columns[1].name
    /\ df[1].name # df[2].name
    /\ df[1].series # df[2].series
    /\ Len(ret.calls) = 2

-----------------------------------------------------------------------------
(* C9 *)

\* C9: when the pairing succeeds, the validator of every paired column is
\* invoked exactly once, in list order, on the values paired with it, and
\* the returned list is a permutation of the validators' joint output.
C9_AllPairsValidated ==
    (Called /\ ret.exit = "return111") =>
        /\ Len(ret.calls) = Len(Paired)
        /\ \A i \in 1..Len(Paired) :
              /\ ret.calls[i].column = Paired[i]
              /\ ret.calls[i].series = PairedSeries(i)
              /\ ret.calls[i].out = ColumnValidate(Paired[i], PairedSeries(i))
        /\ Len(ret.errors) = Len(Emitted)
        /\ \A e \in Range(Emitted) \cup Range(ret.errors) :
              Count(ret.errors, e) = Count(Emitted, e)

\* Two columns were paired by name, and both validators returned warnings.
C9_Witness ==
    /\ Called /\ ret.exit = "return111" /\ ~self.ordered
    /\ Len(ret.calls) = 2
    /\ Len(ret.calls[1].out) > 1
    /\ Len(ret.calls[2].out) > 1
    /\ ret.calls[1].out # ret.calls[2].out

-----------------------------------------------------------------------------
(* C10 *)

\* The schema as __init__ built it.
Fresh == SchemaInit(args.columns, args.ordered)

\* C10: after any calls, however they ended, the schema's columns and flag
\* are those of the construction, and a call returns what the same call
\* returns on a freshly constructed schema.
C10_Stateless ==
    (pc \in {"ready", "returned"}) =>
        /\ self = Fresh
        /\ Called =>
              LET fresh == validate(Fresh, df, subset)
              IN  /\ ret.errors = fresh.errors
                  /\ ret.exit = fresh.exit
                  /\ ret.self = Fresh

\* A call with a subset that returns warnings, made after a call that ended
\* in the argument error.
C10_Witness ==
    /\ Called /\ prev = "raise81"
    /\ ret.exit = "return111"
    /\ subset.given /\ Len(Working) < Len(self.columns)
    /\ ret.errors # <<>>

====
